---- MODULE Spec2Model ----
(***************************************************************************)
(* The Maya engine of Tank (src/engine.py): the scene-event callback that  *)
(* keeps, rebuilds or disables the running engine when the open scene      *)
(* changes, the "Tank is disabled" menu, and the one-shot scriptJobs that  *)
(* call the callback.  Maya is modelled in UI mode (has_ui is True).       *)
(*                                                                         *)
(* on_scene_event_cb is modelled statement group by statement group: pc    *)
(* is the position inside the running callback, "idle" when none runs.     *)
(* The host is single threaded: while a callback runs nothing else does.   *)
(***************************************************************************)
EXTENDS Integers, Sequences, FiniteSets

\* number of scene events the host emits in one run
MaxEvents == 3

\* number of add_to_queue calls in one run
MaxItems == 3

\* number of report_progress calls of one queue item
MaxReports == 2

\* number of execute_queue calls in one run
MaxDrains == 2

\* ------------------------------------------------------------------ values

EngineName == "tk-maya"

Contexts == {"C1", "C2"}

NoContext == "NoContext"

\* scene names: "" is the unnamed scene, P3 lies in no Tank project
Paths == {"", "P1", "P2", "P3"}

EventKinds == {"SceneOpened", "SceneSaved"}

MenuNames == {"TankMenu", "TankMenuDisabled"}

\* tank.platform.current_engine() when no engine is running
NoEngine == [id |-> 0, ctx |-> NoContext]

\* tank.tank_from_path(path) raises tank.TankError for a path outside Tank
Recognized(path) == path \in {"P1", "P2"}

\* tk.context_from_path(path, prev_context)
ContextOf(path) ==
    CASE path = "P1" -> "C1"
      [] path = "P2" -> "C2"
      [] OTHER -> NoContext

VARIABLES
    pc,             \* position inside on_scene_event_cb, "idle" outside it
    sceneName,      \* pm.sceneName()
    engine,         \* tank.platform.current_engine()
    live,           \* the engines started and not destroyed
    menus,          \* menus[n]: how many menus named n the main window holds
    listeners,      \* the armed scriptJobs, in registration order
    pending,        \* scriptJobs triggered by the current event, not yet run
    engine_name,    \* argument of the running callback
    prev_context,   \* argument of the running callback
    current_engine, \* local of the running callback
    ctx,            \* local of the running callback
    events,         \* scene events emitted so far
    nextId,         \* identity of the next engine started
    pre,            \* history: state when the running callback was entered
    atEvent,        \* history: state when the last scene event was emitted
    outcome,        \* history: how the last callback ended
    calls,          \* history: destroy / start_engine calls of the callback
    destroyCalls,   \* history: destroy() calls since bootstrap
    startCalls,     \* history: start_engine() calls since bootstrap
    initCtx,        \* history: context of the engine bootstrap started
    allSame,        \* history: every event so far resolved to initCtx
    eventFailed,    \* history: a callback of the last event caught an error
    queue,          \* self._queue of the running engine
    qpc,            \* position inside execute_queue, "idle" outside it
    current_queue_item, \* local of execute_queue
    current_progress,   \* self._current_progress
    raised,         \* the method of the current item raised
    barOpen,        \* progress indicators begun and not ended
    nextItem,       \* name of the next item a caller enqueues
    trace,          \* history: queue operations in the order they happened
    reported,       \* history: percents the current item reported
    prevProgress,   \* history: self._current_progress when the item was taken
    steps           \* history: steps applied to the bar for the current item

\* the state of the scene-event controller
lvars == <<pc, sceneName, engine, live, menus, listeners, pending, engine_name,
          prev_context, current_engine, ctx, events, nextId, pre, atEvent,
          outcome, calls, destroyCalls, startCalls, initCtx, allSame,
          eventFailed>>

\* the state of the job queue
qvars == <<queue, qpc, current_queue_item, current_progress, raised, barOpen,
           nextItem, trace, reported, prevProgress, steps>>

vars == <<lvars, qvars>>

\* self._current_progress before the first execute_queue assigns it
Unset == -1

\* no queue item is being processed
NoItem == [name |-> 0]

\* ------------------------------------------------------------------ helpers

\* pm.menu(name, exists=True)
MenuExists(m, name) == m[name] > 0

\* pm.deleteUI(name)
DeleteUI(m, name) == [m EXCEPT ![name] = m[name] - 1]

\* pm.menu(name, label=..., parent=...)
CreateMenu(m, name) == [m EXCEPT ![name] = m[name] + 1]

\* create_tank_disabled_menu() without lines 118-119
create_tank_disabled_menu_keep(m) == CreateMenu(m, "TankMenuDisabled")

\* create_tank_disabled_menu()
create_tank_disabled_menu(m) ==
    LET cleared == IF MenuExists(m, "TankMenu") THEN DeleteUI(m, "TankMenu") ELSE m
    IN  CreateMenu(cleared, "TankMenuDisabled")

\* registering the SceneOpened scriptJob only
ScriptJobs_OpenedOnly(en, pc_) ==
    << [event |-> "SceneOpened", engine_name |-> en, prev_context |-> pc_] >>

\* the two pm.scriptJob(event=[kind, cb_fn], runOnce=True) registrations
ScriptJobs(en, pc_) ==
    << [event |-> "SceneOpened", engine_name |-> en, prev_context |-> pc_],
       [event |-> "SceneSaved",  engine_name |-> en, prev_context |-> pc_] >>

\* MayaEngine.destroy_engine: pm.deleteUI(self._menu_handle) raises
\* RuntimeError when the menu is gone
DestroyRaises(m) == ~MenuExists(m, "TankMenu")

Snapshot ==
    [engine |-> engine, live |-> live, menus |-> menus,
     destroyCalls |-> destroyCalls, startCalls |-> startCalls]

\* ------------------------------------------------------------------ initial state

\* bootstrap started an engine for some context: init_engine registered the
\* scriptJobs, post_app_init created TankMenu
Init ==
    \E c \in Contexts, p \in Paths :
        /\ pc = "idle"
        /\ sceneName = p
        /\ engine = [id |-> 1, ctx |-> c]
        /\ live = {[id |-> 1, ctx |-> c]}
        /\ menus = [n \in MenuNames |-> IF n = "TankMenu" THEN 1 ELSE 0]
        /\ listeners = ScriptJobs(EngineName, c)
        /\ pending = <<>>
        /\ engine_name = EngineName
        /\ prev_context = c
        /\ current_engine = NoEngine
        /\ ctx = NoContext
        /\ events = 0
        /\ nextId = 2
        /\ pre = [engine |-> [id |-> 1, ctx |-> c], live |-> {[id |-> 1, ctx |-> c]},
                  menus |-> [n \in MenuNames |-> IF n = "TankMenu" THEN 1 ELSE 0],
                  destroyCalls |-> 0, startCalls |-> 0]
        /\ atEvent = pre
        /\ outcome = "none"
        /\ calls = <<>>
        /\ destroyCalls = 0
        /\ startCalls = 0
        /\ initCtx = c
        /\ allSame = TRUE
        /\ eventFailed = FALSE
        /\ queue = <<>>
        /\ qpc = "idle"
        /\ current_queue_item = NoItem
        /\ current_progress = Unset
        /\ raised = FALSE
        /\ barOpen = 0
        /\ nextItem = 1
        /\ trace = <<>>
        /\ reported = <<>>
        /\ prevProgress = Unset
        /\ steps = <<>>

\* ------------------------------------------------------------------ the host

\* Maya emits SceneOpened or SceneSaved: the scene has the name path, every
\* scriptJob armed for the event is triggered and, being runOnce, removed
SceneEvent(kind, path) ==
    /\ pc = "idle"
    /\ pending = <<>>
    /\ UNCHANGED qvars
    /\ events < MaxEvents
    /\ kind = "SceneSaved" => path # ""
    /\ sceneName' = path
    /\ pending' = SelectSeq(listeners, LAMBDA j : j.event = kind)
    /\ listeners' = SelectSeq(listeners, LAMBDA j : j.event # kind)
    /\ events' = events + 1
    /\ atEvent' = Snapshot
    /\ allSame' = (allSame /\ Recognized(path) /\ ContextOf(path) = initCtx)
    /\ eventFailed' = FALSE
    /\ UNCHANGED <<pc, engine, live, menus, engine_name, prev_context,
                   current_engine, ctx, nextId, pre, outcome, calls,
                   destroyCalls, startCalls, initCtx>>

\* a triggered scriptJob runs its cb_fn: on_scene_event_cb(en, pc)
Invoke ==
    /\ pc = "idle"
    /\ pending # <<>>
    /\ UNCHANGED qvars
    /\ engine_name' = Head(pending).engine_name
    /\ prev_context' = Head(pending).prev_context
    /\ pending' = Tail(pending)
    /\ current_engine' = NoEngine
    /\ ctx' = NoContext
    /\ pre' = Snapshot
    /\ outcome' = "running"
    /\ calls' = <<>>
    /\ pc' = "enter"
    /\ UNCHANGED <<sceneName, engine, live, menus, listeners, events, nextId,
                   atEvent, destroyCalls, startCalls, initCtx, allSame,
                   eventFailed>>

\* ------------------------------------------------------------------ on_scene_event_cb

\* lines 38-47: read the current engine, delete the disabled menu, return on
\* an unnamed scene
Enter ==
    /\ pc = "enter"
    /\ UNCHANGED qvars
    /\ current_engine' = engine
    /\ menus' = IF MenuExists(menus, "TankMenuDisabled")
                THEN DeleteUI(menus, "TankMenuDisabled") ELSE menus
    /\ IF sceneName = ""
       THEN pc' = "idle" /\ outcome' = "unnamed"
       ELSE pc' = "tank_from_path" /\ outcome' = outcome
    /\ UNCHANGED <<sceneName, engine, live, listeners, pending, engine_name,
                   prev_context, ctx, events, nextId, pre, atEvent, calls,
                   destroyCalls, startCalls, initCtx, allSame, eventFailed>>

\* lines 49-59: tank_from_path; on tank.TankError render the disabled menu
\* and return
TankFromPath ==
    /\ pc = "tank_from_path"
    /\ UNCHANGED qvars
    /\ IF Recognized(sceneName)
       THEN pc' = "context_from_path" /\ menus' = menus /\ outcome' = outcome
       ELSE /\ menus' = create_tank_disabled_menu(menus)
            /\ pc' = "idle"
            /\ outcome' = "resolve_failed"
    /\ UNCHANGED <<sceneName, engine, live, listeners, pending, engine_name,
                   prev_context, current_engine, ctx, events, nextId, pre,
                   atEvent, calls, destroyCalls, startCalls, initCtx, allSame,
                   eventFailed>>

\* line 65 never taking the early return
Unchanged_Never(cur, new_ctx, prev) == FALSE

\* the no-op test of line 65
Unchanged(cur, new_ctx, prev) == cur # NoEngine /\ new_ctx = prev

\* lines 61-66: context_from_path (an exception it raises goes to line 89),
\* return when an engine is active and the context is unchanged
ContextFromPath(raises) ==
    /\ pc = "context_from_path"
    /\ UNCHANGED qvars
    /\ IF raises
       THEN pc' = "except" /\ ctx' = ctx /\ outcome' = outcome
       ELSE /\ ctx' = ContextOf(sceneName)
            /\ IF Unchanged(current_engine, ContextOf(sceneName), prev_context)
               THEN pc' = "idle" /\ outcome' = "unchanged"
               ELSE pc' = "teardown" /\ outcome' = outcome
    /\ UNCHANGED <<sceneName, engine, live, menus, listeners, pending,
                   engine_name, prev_context, current_engine, events, nextId,
                   pre, atEvent, calls, destroyCalls, startCalls, initCtx,
                   allSame, eventFailed>>

\* line 68 never tearing the current engine down
MustDestroy_Never(cur) == FALSE

\* line 68: if current_engine:
MustDestroy(cur) == cur # NoEngine

\* lines 68-73: destroy the current engine (destroy_engine, lines 204-206,
\* deletes its menu; the engine is current until destroy_engine has returned)
Teardown ==
    /\ pc = "teardown"
    /\ UNCHANGED qvars
    /\ IF MustDestroy(current_engine)
       THEN /\ calls' = Append(calls, "destroy")
            /\ destroyCalls' = destroyCalls + 1
            /\ IF DestroyRaises(menus)
               THEN pc' = "except" /\ UNCHANGED <<engine, live, menus>>
               ELSE /\ menus' = DeleteUI(menus, "TankMenu")
                    /\ engine' = NoEngine
                    /\ live' = live \ {current_engine}
                    /\ pc' = "start_engine"
       ELSE pc' = "start_engine"
            /\ UNCHANGED <<engine, live, menus, calls, destroyCalls>>
    /\ UNCHANGED <<sceneName, listeners, pending, engine_name, prev_context,
                   current_engine, ctx, events, nextId, pre, atEvent, outcome,
                   startCalls, initCtx, allSame, eventFailed>>

StartResults == {"ok", "TankEngineInitError", "TankError"}

\* lines 76-87: start_engine.  "ok": init_engine (lines 174-187) registers
\* the scriptJobs with the new context, post_app_init (lines 195-201) creates
\* TankMenu.  "TankEngineInitError": lines 78-85.  "TankError": init_engine
\* raised at lines 139-171, which line 78 does not catch.
StartEngine(result) ==
    /\ pc = "start_engine"
    /\ UNCHANGED qvars
    /\ calls' = Append(calls, "start_engine")
    /\ startCalls' = startCalls + 1
    /\ CASE result = "ok" ->
              /\ engine' = [id |-> nextId, ctx |-> ctx]
              /\ live' = live \cup {[id |-> nextId, ctx |-> ctx]}
              /\ nextId' = nextId + 1
              /\ listeners' = listeners \o ScriptJobs(engine_name, ctx)
              /\ menus' = CreateMenu(menus, "TankMenu")
              /\ pc' = "idle"
              /\ outcome' = "started"
              /\ eventFailed' = eventFailed
         [] result = "TankEngineInitError" ->
              /\ menus' = create_tank_disabled_menu(menus)
              /\ listeners' = listeners \o ScriptJobs(engine_name, prev_context)
              /\ pc' = "idle"
              /\ outcome' = "init_failed"
              /\ eventFailed' = TRUE
              /\ UNCHANGED <<engine, live, nextId>>
         [] OTHER ->
              /\ pc' = "except"
              /\ UNCHANGED <<engine, live, nextId, listeners, menus, outcome,
                             eventFailed>>
    /\ UNCHANGED <<sceneName, pending, engine_name, prev_context,
                   current_engine, ctx, events, pre, atEvent, destroyCalls,
                   initCtx, allSame>>

\* lines 89-97: report the exception with displayError and return
Except ==
    /\ pc = "except"
    /\ UNCHANGED qvars
    /\ outcome' = "exception"
    /\ eventFailed' = TRUE
    /\ pc' = "idle"
    /\ UNCHANGED <<sceneName, engine, live, menus, listeners, pending,
                   engine_name, prev_context, current_engine, ctx, events,
                   nextId, pre, atEvent, calls, destroyCalls, startCalls,
                   initCtx, allSame>>

Next ==
    \/ \E kind \in EventKinds, path \in Paths : SceneEvent(kind, path)
    \/ Invoke
    \/ Enter
    \/ TankFromPath
    \/ \E raises \in BOOLEAN : ContextFromPath(raises)
    \/ Teardown
    \/ \E result \in StartResults : StartEngine(result)
    \/ Except

Spec == Init /\ [][Next]_vars

\* ------------------------------------------------------------------ the job queue

\* percents a queue item reports
Percents == {40, 100}

Event(op, name) == [op |-> op, item |-> name]

\* the events of the history with the given operation
Ops(op) == SelectSeq(trace, LAMBDA e : e.op = op)

Names(seq) == [i \in DOMAIN seq |-> seq[i].item]

\* line 316 putting the item at the head
Enqueue_Front(q, qi) == <<qi>> \o q

\* line 316: self._queue.append(qi)
Enqueue(q, qi) == Append(q, qi)

\* line 340 dropping two items
Rest_SkipOne(q) == SubSeq(q, 3, Len(q))

\* line 340: self._queue[1:]
Rest(q) == SubSeq(q, 2, Len(q))

\* line 336 leaving the last item in the queue
MoreWork_ButLast(q) == Len(q) > 1

\* line 336: len(self._queue) > 0
MoreWork(q) == Len(q) > 0

\* line 348 keeping the value of the previous item
ProgressAtBegin_Keep(cur) == IF cur = Unset THEN 0 ELSE cur

\* line 348: self._current_progress = 0
ProgressAtBegin(cur) == 0

\* line 324 passing the absolute percent
ReportDelta_Absolute(percent, cur) == percent

\* line 324: delta = percent - self._current_progress
ReportDelta(percent, cur) == percent - cur

\* lines 357-360 clearing the queue after a failed item
OnItemError_Clear(q) == <<>>

\* lines 357-360: log the error and continue, the queue is left alone
OnItemError(q) == q

\* line 362 ending the indicator only after a successful item
EndProgress_OnSuccess(open, failed) == IF failed THEN open ELSE open - 1

\* lines 361-362: finally: endProgress
EndProgress(open, failed) == open - 1

\* add_to_queue (lines 307-316), called outside execute_queue or by the
\* method of the item being processed
AddToQueue ==
    /\ qpc \in {"idle", "run"}
    /\ nextItem <= MaxItems
    /\ queue' = Enqueue(queue, [name |-> nextItem])
    /\ nextItem' = nextItem + 1
    /\ trace' = Append(trace, Event("add", nextItem))
    /\ UNCHANGED <<qpc, current_queue_item, current_progress, raised, barOpen,
                   reported, prevProgress, steps>>
    /\ UNCHANGED lvars

\* execute_queue is called (lines 328-333)
ExecuteQueue ==
    /\ qpc = "idle"
    /\ Len(Ops("call")) < MaxDrains
    /\ qpc' = "while"
    /\ trace' = Append(trace, Event("call", 0))
    /\ UNCHANGED <<queue, current_queue_item, current_progress, raised,
                   barOpen, nextItem, reported, prevProgress, steps>>
    /\ UNCHANGED lvars

\* lines 336-348: take the head item off, begin the progress bar, reset the
\* progress
TakeItem ==
    /\ qpc = "while"
    /\ MoreWork(queue)
    /\ current_queue_item' = queue[1]
    /\ queue' = Rest(queue)
    /\ barOpen' = barOpen + 1
    /\ prevProgress' = current_progress
    /\ current_progress' = ProgressAtBegin(current_progress)
    /\ raised' = FALSE
    /\ reported' = <<>>
    /\ steps' = <<>>
    /\ trace' = Append(trace, Event("begin", queue[1].name))
    /\ qpc' = "run"
    /\ UNCHANGED nextItem
    /\ UNCHANGED lvars

\* line 336 with an empty queue: execute_queue returns
Return ==
    /\ qpc = "while"
    /\ ~MoreWork(queue)
    /\ qpc' = "idle"
    /\ trace' = Append(trace, Event("return", 0))
    /\ UNCHANGED <<queue, current_queue_item, current_progress, raised,
                   barOpen, nextItem, reported, prevProgress, steps>>
    /\ UNCHANGED lvars

\* report_progress (lines 318-326), called by the method of the current item
\* through its progress_callback argument
ReportProgress(percent) ==
    /\ qpc = "run"
    /\ Len(reported) < MaxReports
    /\ steps' = Append(steps, ReportDelta(percent, current_progress))
    /\ current_progress' = percent
    /\ reported' = Append(reported, percent)
    /\ UNCHANGED <<queue, qpc, current_queue_item, raised, barOpen, nextItem,
                   trace, prevProgress>>
    /\ UNCHANGED lvars

\* line 356: the method of the current item returns
ItemReturns ==
    /\ qpc = "run"
    /\ qpc' = "finally"
    /\ trace' = Append(trace, Event("ok", current_queue_item.name))
    /\ UNCHANGED <<queue, current_queue_item, current_progress, raised,
                   barOpen, nextItem, reported, prevProgress, steps>>
    /\ UNCHANGED lvars

\* line 356: the method of the current item raises
ItemRaises ==
    /\ qpc = "run"
    /\ qpc' = "except"
    /\ raised' = TRUE
    /\ UNCHANGED <<queue, current_queue_item, current_progress, barOpen,
                   nextItem, trace, reported, prevProgress, steps>>
    /\ UNCHANGED lvars

\* lines 357-360: log the error and continue
QueueExcept ==
    /\ qpc = "except"
    /\ queue' = OnItemError(queue)
    /\ trace' = Append(trace, Event("error", current_queue_item.name))
    /\ qpc' = "finally"
    /\ UNCHANGED <<current_queue_item, current_progress, raised, barOpen,
                   nextItem, reported, prevProgress, steps>>
    /\ UNCHANGED lvars

\* lines 361-362: end the progress bar, back to the test of line 336 (the
\* history of the item's reports ends with the item)
Finally ==
    /\ qpc = "finally"
    /\ barOpen' = EndProgress(barOpen, raised)
    /\ trace' = IF EndProgress(barOpen, raised) < barOpen
                THEN Append(trace, Event("end", current_queue_item.name))
                ELSE trace
    /\ qpc' = "while"
    /\ reported' = <<>>
    /\ steps' = <<>>
    /\ prevProgress' = Unset
    /\ UNCHANGED <<queue, current_queue_item, current_progress, raised,
                   nextItem>>
    /\ UNCHANGED lvars

\* the steps execute_queue takes once it has been called
DrainStep ==
    \/ TakeItem
    \/ Return
    \/ ItemReturns
    \/ ItemRaises
    \/ QueueExcept
    \/ Finally

\* the engine bootstrap started, with its empty queue (line 174)
QInit == Init /\ initCtx = "C1" /\ sceneName = "P1"

QNext ==
    \/ AddToQueue
    \/ ExecuteQueue
    \/ \E percent \in Percents : ReportProgress(percent)
    \/ TakeItem
    \/ Return
    \/ ItemReturns
    \/ ItemRaises
    \/ QueueExcept
    \/ Finally

QSpec == QInit /\ [][QNext]_vars

\* execute_queue runs to completion once called: it is synchronous and every
\* method of an item terminates
QLiveSpec == QSpec /\ WF_vars(DrainStep)

\* ------------------------------------------------------------------ properties

\* no callback is running and none is still to run for the last event
Handled == pc = "idle" /\ pending = <<>> /\ events > 0

Armed(kind) == \E i \in DOMAIN listeners : listeners[i].event = kind

\* C1: whenever no callback is running (after bootstrap, after each completed
\* callback) the number of live engines plus the number of "Tank is disabled"
\* menus is exactly 1.
C1_SessionsPlusMarkers ==
    pc = "idle" => Cardinality(live) + menus["TankMenuDisabled"] = 1

\* C2: after a callback in which tank_from_path failed, exactly one disabled
\* menu exists, no engine is live and the callback returned normally.
C2_ResolutionFailure ==
    (pc = "idle" /\ outcome = "resolve_failed")
        => /\ menus["TankMenuDisabled"] = 1
           /\ live = {}
           /\ engine = NoEngine

\* C3: at most one engine is live in every state, the states inside a
\* callback included, and a callback that calls start_engine while an engine
\* was live when it was entered has called destroy() first.
C3_AtMostOneSession ==
    /\ Cardinality(live) <= 1
    /\ (\E i \in DOMAIN calls : calls[i] = "start_engine") /\ pre.engine # NoEngine
          => calls = <<"destroy", "start_engine">>

\* a callback entered with a live engine destroyed it and started another
C3_Witness ==
    /\ pc = "idle"
    /\ outcome = "started"
    /\ pre.engine # NoEngine
    /\ engine # pre.engine
    /\ live = {engine}

\* C4: once the callbacks of an event have all returned, a scriptJob is armed
\* for SceneOpened and one for SceneSaved.
C4_ListenersArmed ==
    Handled => \A kind \in EventKinds : Armed(kind)

\* C5: when an event is emitted while an engine is live and the scene resolves
\* to that engine's context, then once the event is handled the same engine
\* is current and neither destroy() nor start_engine was called.
C5_SameContextNoRebuild ==
    (/\ Handled
     /\ atEvent.engine # NoEngine
     /\ Recognized(sceneName)
     /\ ContextOf(sceneName) = atEvent.engine.ctx)
        => /\ engine = atEvent.engine
           /\ destroyCalls = atEvent.destroyCalls
           /\ startCalls = atEvent.startCalls

\* C6: as long as every event so far resolved to the context of the engine
\* bootstrap started, destroy() and start_engine have never been called and
\* that engine is still the current one.
C6_NoRebuildWhileUnchanged ==
    allSame => /\ destroyCalls = 0
               /\ startCalls = 0
               /\ engine = [id |-> 1, ctx |-> initCtx]
               /\ live = {engine}

\* two events that resolved to the bootstrap context have been handled, the
\* last callback returning at line 66
C6_Witness ==
    /\ allSame
    /\ Handled
    /\ events >= 2
    /\ outcome = "unchanged"

\* C7: when an event is emitted while an engine bound to C1 is live, the scene
\* resolves to another context C2 and no callback of the event caught an
\* error, then once the event is handled the C1 engine is destroyed and the
\* current engine is bound to C2.
C7_ContextChangeRebuilds ==
    (/\ Handled
     /\ atEvent.engine # NoEngine
     /\ Recognized(sceneName)
     /\ ContextOf(sceneName) # atEvent.engine.ctx
     /\ ~eventFailed)
        => /\ atEvent.engine \notin live
           /\ engine # NoEngine
           /\ engine.ctx = ContextOf(sceneName)

\* C8: a callback that ran on an unnamed scene called neither destroy() nor
\* start_engine and left the current engine, the live engines and both menus
\* as they were when it was entered.
C8_UnnamedSceneFrame ==
    (pc = "idle" /\ outcome = "unnamed")
        => /\ engine = pre.engine
           /\ live = pre.live
           /\ menus = pre.menus
           /\ calls = <<>>

\* C9: a callback that ended in the handler of line 89 left the current
\* engine, the live engines and both menus as they were when it was entered.
C9_ExceptionLeavesState ==
    (pc = "idle" /\ outcome = "exception")
        => /\ engine = pre.engine
           /\ live = pre.live
           /\ menus = pre.menus

\* C10: in every state at most one "Tank is disabled" menu exists, and
\* TankMenu and TankMenuDisabled do not exist together.
C10_MenusExclusive ==
    /\ menus["TankMenuDisabled"] <= 1
    /\ ~(MenuExists(menus, "TankMenu") /\ MenuExists(menus, "TankMenuDisabled"))

\* the disabled menu was rendered by a callback entered while TankMenu existed
C10_Witness ==
    /\ pc = "idle"
    /\ outcome \in {"resolve_failed", "init_failed"}
    /\ pre.menus["TankMenu"] = 1
    /\ menus["TankMenuDisabled"] = 1
    /\ menus["TankMenu"] = 0

\* the scriptJobs armed for an event kind
ArmedFor(kind) == {i \in DOMAIN listeners : listeners[i].event = kind}

\* C15: the step of on_scene_event_cb in which start_engine fails with
\* TankEngineInitError returns normally with no engine current or live (the
\* engine live on entry destroyed), the disabled menu rendered and, for
\* SceneOpened and for SceneSaved, a scriptJob armed that carries the
\* callback's own (engine_name, prev_context).
C15_InitErrorDisablesAndRearms ==
    [][(pc = "start_engine" /\ pc' = "idle" /\ outcome' = "init_failed")
        => /\ engine' = NoEngine
           /\ live' = {}
           /\ pre.engine \notin live'
           /\ menus'["TankMenuDisabled"] = 1
           /\ menus'["TankMenu"] = 0
           /\ \A kind \in EventKinds :
                \E i \in DOMAIN listeners' :
                    listeners'[i] = [event |-> kind, engine_name |-> engine_name,
                                     prev_context |-> prev_context]]_vars

\* start_engine failed with TankEngineInitError in a callback entered with a
\* live engine
C15_Witness ==
    /\ pc = "idle"
    /\ outcome = "init_failed"
    /\ pre.engine # NoEngine
    /\ calls = <<"destroy", "start_engine">>
    /\ menus["TankMenuDisabled"] = 1

\* C19: at most one scriptJob is armed for SceneOpened and at most one for
\* SceneSaved.
C19_OneListenerPerKind ==
    \A kind \in EventKinds : Cardinality(ArmedFor(kind)) <= 1

\* C20: whenever no callback is running, a live current engine has its
\* TankMenu.
C20_LiveSessionHasMenu ==
    (pc = "idle" /\ engine # NoEngine) => MenuExists(menus, "TankMenu")

\* ------------------------------------------------------------------ properties of the queue

RECURSIVE Sum(_)
Sum(seq) == IF seq = <<>> THEN 0 ELSE seq[1] + Sum(SubSeq(seq, 2, Len(seq)))

\* the items whose method has returned or raised, in that order
Finished == SelectSeq(trace, LAMBDA e : e.op \in {"ok", "error"})

\* execute_queue is processing an item
InItem == qpc \in {"run", "except", "finally"}

\* the history positions holding the given event
At(op, name) == {i \in DOMAIN trace : trace[i] = Event(op, name)}

\* C11: the items enqueued so far are exactly the items taken so far, in
\* enqueue order, followed by the items still queued: none is skipped,
\* reordered or taken twice, whichever items raise; and every item taken has
\* run exactly once when no item is being processed.
C11_FifoExactlyOnce ==
    /\ Names(Ops("add")) = Names(Ops("begin")) \o [i \in DOMAIN queue |-> queue[i].name]
    /\ \/ Names(Finished) = Names(Ops("begin"))
       \/ /\ InItem
          /\ Names(Finished) = SubSeq(Names(Ops("begin")), 1, Len(Ops("begin")) - 1)

\* three items were drained in order, the first raised and the second did not
C11_Witness ==
    /\ qpc = "idle"
    /\ queue = <<>>
    /\ Names(Ops("begin")) = <<1, 2, 3>>
    /\ At("error", 1) # {}
    /\ At("ok", 2) # {}

\* C12: an item that raised has its error logged before its indicator is
\* ended, execute_queue goes on to the test of line 336, and it does not
\* return before every item enqueued before the error was logged has been
\* taken.
C12_FailureIsolated ==
    /\ (qpc = "finally" /\ raised) => At("error", current_queue_item.name) # {}
    /\ (qpc = "idle") => ~(\E i \in DOMAIN trace : trace[i].op = "begin" /\
                              At("ok", trace[i].item) = {} /\ At("error", trace[i].item) = {})
    /\ \A e \in DOMAIN trace, r \in DOMAIN trace :
          (trace[e].op = "error" /\ trace[r].op = "return" /\ e < r)
              => \A a \in 1..(e - 1) :
                    trace[a].op = "add" =>
                        \E b \in 1..(r - 1) : trace[b] = Event("begin", trace[a].item)

\* item 1 raised with item 2 queued behind it; item 2 ran and execute_queue
\* returned
C12_Witness ==
    /\ trace # <<>>
    /\ qpc = "idle"
    /\ \E e \in At("error", 1), a \in At("add", 2), k \in At("ok", 2) :
          a < e /\ e < k
    /\ trace[Len(trace)].op = "return"

\* C13: while an item is processed, the i-th step applied to the progress
\* bar is the i-th reported percent minus the one reported before it (0
\* before the first), the steps add up to the percent last reported, which
\* is the stored progress, and a non-decreasing sequence of reports gives no
\* negative step.
C13_ProgressDelta ==
    InItem =>
        /\ Len(steps) = Len(reported)
        /\ \A i \in DOMAIN steps :
              steps[i] = reported[i] - (IF i = 1 THEN 0 ELSE reported[i - 1])
        /\ Sum(steps) = current_progress
        /\ reported # <<>> => current_progress = reported[Len(reported)]
        /\ (\A i \in 2..Len(reported) : reported[i - 1] <= reported[i])
              => \A i \in DOMAIN steps : steps[i] >= 0

\* an item reported 40 then 100: steps 40 and 60
C13_Witness ==
    /\ InItem
    /\ reported = <<40, 100>>
    /\ steps = <<40, 60>>

\* C14: a step that enqueues appends the new item at the tail, leaves the
\* items already queued in place, takes no item and does not move
\* execute_queue; every step leaves the queue alone, appends one item at the
\* tail or removes the head.
C14_AppendOnly ==
    [][/\ nextItem' # nextItem =>
            /\ queue' = Append(queue, [name |-> nextItem])
            /\ Len(queue') = Len(queue) + 1
            /\ SubSeq(queue', 1, Len(queue)) = queue
            /\ Ops("begin")' = Ops("begin")
            /\ Finished' = Finished
            /\ qpc' = qpc
       /\ \/ queue' = queue
          \/ \E n \in 1..MaxItems + 1 : queue' = Append(queue, [name |-> n])
          \/ queue # <<>> /\ queue' = SubSeq(queue, 2, Len(queue))]_vars

\* an item was appended behind two queued items
C14_Witness ==
    /\ trace # <<>>
    /\ Len(queue) = 3
    /\ trace[Len(trace)] = Event("add", 3)
    /\ queue[3].name = 3

\* the begin and end events of the progress bar
BarEvents == SelectSeq(trace, LAMBDA e : e.op \in {"begin", "end"})

\* the events of one item
ItemEvents(name) == SelectSeq(trace, LAMBDA e : e.item = name /\ e.op # "add")

\* C16: the indicator is open exactly while an item is processed; begin and
\* end alternate, each end closing the item just begun; an item that has been
\* processed has exactly the events begin, ok or error, end, in that order;
\* no indicator is open outside execute_queue.
C16_IndicatorPaired ==
    /\ barOpen = (IF InItem THEN 1 ELSE 0)
    /\ \A i \in DOMAIN BarEvents :
          IF i % 2 = 1
          THEN BarEvents[i].op = "begin"
          ELSE BarEvents[i].op = "end" /\ BarEvents[i].item = BarEvents[i - 1].item
    /\ ~InItem => Len(BarEvents) % 2 = 0
    /\ \A i \in DOMAIN trace :
          (trace[i].op = "begin" /\ (~InItem \/ trace[i].item # current_queue_item.name))
              => \/ ItemEvents(trace[i].item)
                      = <<Event("begin", trace[i].item), Event("ok", trace[i].item),
                          Event("end", trace[i].item)>>
                 \/ ItemEvents(trace[i].item)
                      = <<Event("begin", trace[i].item), Event("error", trace[i].item),
                          Event("end", trace[i].item)>>

\* item 1 raised, its indicator was ended and the indicator of item 2 begun
C16_Witness ==
    \E e \in At("error", 1), f \in At("end", 1), b \in At("begin", 2) :
        e < f /\ f < b

\* C17: when an item is taken the stored progress is 0 whatever the item
\* before it left there, and the first step of the item is the first percent
\* it reports.
C17_ProgressReset ==
    /\ (qpc = "run" /\ reported = <<>>) => current_progress = 0
    /\ (InItem /\ steps # <<>>) => steps[1] = reported[1]

\* the item before left 100 (and raised, or not); this item reported 40 first
\* and the bar was stepped by 40
C17_Witness ==
    /\ InItem
    /\ prevProgress = 100
    /\ Len(Ops("begin")) >= 2
    /\ reported # <<>>
    /\ reported[1] = 40
    /\ steps[1] = 40

\* an add_to_queue made while an item was being processed
AddedInside(a) ==
    /\ trace[a].op = "add"
    /\ \E b \in 1..(a - 1) :
          /\ trace[b].op = "begin"
          /\ \A f \in (b + 1)..(a - 1) : trace[f] # Event("end", trace[b].item)

\* C18: a called execute_queue returns; when it returns the queue is empty
\* and every item enqueued before the return, those the running items
\* appended included, has been processed; items are taken in enqueue order.
C18_DrainTerminates ==
    /\ (qpc # "idle") ~> (qpc = "idle")
    /\ [](\A r \in DOMAIN trace :
            trace[r].op = "return" =>
                /\ r = Len(trace) => queue = <<>>
                /\ \A a \in 1..(r - 1) :
                      trace[a].op = "add" =>
                          \E f \in (a + 1)..(r - 1) : trace[f] = Event("end", trace[a].item))
    /\ [](\A b1 \in DOMAIN trace, b2 \in DOMAIN trace :
            (trace[b1].op = "begin" /\ trace[b2].op = "begin" /\ b1 < b2)
                => \E a1 \in At("add", trace[b1].item), a2 \in At("add", trace[b2].item) :
                      a1 < a2)

\* execute_queue returned after processing an item that a running item had
\* appended behind an item already queued
C18_Witness ==
    /\ trace # <<>>
    /\ qpc = "idle"
    /\ trace[Len(trace)].op = "return"
    /\ \E a \in DOMAIN trace :
          /\ AddedInside(a)
          /\ trace[a].item = 3
          /\ \E b2 \in At("begin", 2), b3 \in At("begin", 3) : a < b2 /\ b2 < b3

====
